---- MODULE Spec2Model ----
(***************************************************************************)
(* Model of src/src/binding_model.py: class BindingModel.                  *)
(*                                                                         *)
(* Real numbers are exact rationals <<n, d>> in lowest terms with d > 0.   *)
(* A DNA string is a sequence of one-letter strings.  A PWM is a record    *)
(* [alphabet, length, vals] with vals[letter][position] a rational.  A     *)
(* collection is a record [pwm, sites].                                    *)
(*                                                                         *)
(* A log-odds value log2(x) is carried by its argument x (so that          *)
(* 2**pssm[let][i] is x itself and -inf is carried by 0); the score that   *)
(* score_seq returns, sum_i log2(t_i), is carried by the sequence of its   *)
(* terms' arguments <<t_1, ..., t_L>>.                                     *)
(***************************************************************************)
EXTENDS Integers, Sequences, FiniteSets, TLC

VARIABLES status, _background, _pwm, _collection_set, args, ret

vars == <<status, _background, _pwm, _collection_set, args, ret>>

(* ---------------------------- bounds ----------------------------------- *)
MaxColls == 2
MaxWeight == 2
MaxSeqLen == 2
MaxScores == 1
MaxPriorDen == 4
MaxRatio == 4

(* ---------------------- exact rational arithmetic ---------------------- *)
RECURSIVE GCD(_, _)
GCD(a, b) == IF b = 0 THEN a ELSE GCD(b, a % b)

Abs(x) == IF x < 0 THEN -x ELSE x

R(n, d) ==
    LET s == IF d < 0 THEN -1 ELSE 1
        g == GCD(Abs(n), Abs(d))
    IN  <<(s * n) \div g, (s * d) \div g>>

RInt(n) == <<n, 1>>
RAdd(x, y) == R(x[1] * y[2] + y[1] * x[2], x[2] * y[2])
RSub(x, y) == R(x[1] * y[2] - y[1] * x[2], x[2] * y[2])
RMul(x, y) == R(x[1] * y[1], x[2] * y[2])
RDiv(x, y) == R(x[1] * y[2], x[2] * y[1])
RLeq(x, y) == x[1] * y[2] <= y[1] * x[2]
RLt(x, y) == x[1] * y[2] < y[1] * x[2]

RECURSIVE RSum(_)
RSum(s) == IF s = <<>> THEN RInt(0) ELSE RAdd(Head(s), RSum(Tail(s)))

RECURSIVE ISum(_)
ISum(s) == IF s = <<>> THEN 0 ELSE Head(s) + ISum(Tail(s))

(* zip(a, b): Python's zip stops at the shorter of the two lists *)
Min(a, b) == IF a <= b THEN a ELSE b
Zip(a, b) == [k \in 1..Min(Len(a), Len(b)) |-> <<a[k], b[k]>>]

(* ------------------------------ inputs --------------------------------- *)
DNA == <<"A", "C", "G", "T">>
DNAN == <<"A", "C", "G", "T", "N">>

Letters(alphabet) == {alphabet[k] : k \in 1..Len(alphabet)}

Unset == [unset |-> TRUE]

DefaultBackground == [let \in Letters(DNA) |-> R(1, 4)]
ATRichBackground ==
    [let \in Letters(DNA) |-> IF let \in {"A", "T"} THEN R(3, 10) ELSE R(1, 5)]
Backgrounds == {DefaultBackground, ATRichBackground}

PwmUniform ==
    [alphabet |-> DNA, length |-> 2,
     vals |-> [let \in Letters(DNA) |-> <<R(1, 4), R(1, 4)>>]]
PwmSkew ==
    [alphabet |-> DNA, length |-> 2,
     vals |-> [let \in Letters(DNA) |->
                 CASE let = "A" -> <<R(1, 2), R(1, 8)>>
                   [] let = "C" -> <<R(1, 2), R(1, 8)>>
                   [] let = "G" -> <<R(0, 1), R(1, 4)>>
                   [] let = "T" -> <<R(0, 1), R(1, 2)>>]]
PwmShort ==
    [alphabet |-> DNA, length |-> 1,
     vals |-> [let \in Letters(DNA) |->
                 IF let = "A" THEN <<R(1, 1)>> ELSE <<R(0, 1)>>]]
PwmWide ==
    [alphabet |-> DNAN, length |-> 2,
     vals |-> [let \in Letters(DNAN) |-> <<R(1, 5), R(1, 5)>>]]

CollA == [pwm |-> PwmUniform, sites |-> << <<"A", "C">>, <<"G", "T">> >>]
CollB == [pwm |-> PwmSkew, sites |-> << <<"A", "C">>, <<"A", "C">> >>]
CollC == [pwm |-> PwmShort, sites |-> << <<"A">> >>]
CollD == [pwm |-> PwmWide, sites |-> << >>]
Collections == {CollA, CollB, CollC, CollD}

SeqsUpTo(S, n) == UNION {[1..k -> S] : k \in 0..n}

WeightValues == (-1)..MaxWeight
(* Weight lists one shorter than, as long as, or one longer than the     *)
(* PWMs, of at most MaxColls weights.  With PWMs and no weight at all    *)
(* every entry is an empty sum and the matrix library is handed a matrix *)
(* of zeros; that input is left out.                                     *)
WeightLists(n) ==
    UNION {[1..k -> WeightValues] :
             k \in {j \in 0..MaxColls :
                      j >= n - 1 /\ j <= n + 1 /\ (n > 0 => j > 0)}}

DNASeqs == UNION {[1..k -> Letters(DNA)] : k \in 1..MaxSeqLen}

(* background scores handed to bayesian_estimator, and priors k/MaxPriorDen *)
ScoreLists == SeqsUpTo({RInt(0), RInt(1)}, MaxScores)
Priors == {R(k, MaxPriorDen) : k \in 0..MaxPriorDen}
OpenPriors == {p \in Priors : RLt(RInt(0), p) /\ RLt(p, RInt(1))}
(* values of lh_ratio(scores): exp(...) is never negative *)
Ratios == {R(n, d) : n \in 0..MaxRatio, d \in 1..MaxRatio}

(* ------------------------ BindingModel._combine_pwms ------------------- *)
(* variant: the weights are used as given, not divided by their sum *)
UnnormalizedWeights(weights) == [k \in 1..Len(weights) |-> RInt(weights[k])]

(* line 117: weights = [float(weight)/sum(weights) for weight in weights] *)
NormalizeWeights(weights) ==
    [k \in 1..Len(weights) |-> RDiv(RInt(weights[k]), RInt(ISum(weights)))]

(* variant: the plain mean of the entries, whatever the weights *)
CombinedEntryUnweighted(pwms, weights, let, i) ==
    LET z == Zip(pwms, weights)
    IN  RDiv(RSum([k \in 1..Len(z) |-> z[k][1].vals[let][i]]), RInt(Len(z)))

(* line 119: sum(pwm[let][i]*w for pwm, w in zip(pwms, weights)) *)
CombinedEntry(pwms, weights, let, i) ==
    LET z == Zip(pwms, weights)
    IN  RSum([k \in 1..Len(z) |-> RMul(z[k][1].vals[let][i], z[k][2])])

(* line 122: PositionWeightMatrix(alphabet, pwm_vals): matrix storage *)
PositionWeightMatrix(alphabet, length, pwm_vals) ==
    [alphabet |-> alphabet, length |-> length, vals |-> pwm_vals]

(* the outcome of a call: an exception raised, or a value returned *)
Raise(name) == [error |-> name]
Return(value) == [error |-> "", value |-> value]
IsError(outcome) == outcome.error # ""

(* line 113: all(len == pwm.length for pwm in pwms) *)
SameLength(len, pwms) == \A k \in 1..Len(pwms) : len = pwms[k].length

(* variant: the comparison of line 115 inverted *)
AlphabetDiffers(alphabet, pwms) ==
    \A k \in 1..Len(pwms) : alphabet # pwms[k].alphabet

(* line 115: all(alphabet == pwm.alphabet for pwm in pwms) *)
SameAlphabet(alphabet, pwms) ==
    \A k \in 1..Len(pwms) : alphabet = pwms[k].alphabet

(* BindingModel._combine_pwms, lines 108-122 *)
_combine_pwms(pwms, weights) ==
    IF pwms = <<>> THEN Raise("IndexError")
    ELSE LET len == pwms[1].length
             alphabet == pwms[1].alphabet
         IN  IF ~ SameLength(len, pwms)
                 THEN Raise("AssertionError")
             ELSE IF ~ SameAlphabet(alphabet, pwms)
                 THEN Raise("AssertionError")
             ELSE IF weights # <<>> /\ ISum(weights) = 0
                 THEN Raise("ZeroDivisionError")
             ELSE LET w == NormalizeWeights(weights)
                  IN  Return(PositionWeightMatrix(alphabet, len,
                        [let \in Letters(alphabet) |->
                           [i \in 1..len |-> CombinedEntry(pwms, w, let, i)]]))

(* ------------------------- derived properties -------------------------- *)
(* line 34: self._pwm.log_odds(self.background); entry (let, i) stands    *)
(* for log2(pwm[let][i] / background[let])                                 *)
pssm(pwm, background) ==
    IF ~ (Letters(pwm.alphabet) \subseteq DOMAIN background)
        THEN Raise("KeyError")
    ELSE Return([let \in Letters(pwm.alphabet) |->
                   [i \in 1..pwm.length |->
                      RDiv(pwm.vals[let][i], background[let])]])

(* line 44: self.pssm.mean(), the mean of the log-odds entries *)
IC(pwm, background) ==
    LET matrix == pssm(pwm, background)
    IN  IF IsError(matrix) THEN matrix ELSE Return([mean_log2 |-> matrix.value])

(* line 53: precision=10**3 *)
Precision == 1000

(* lines 53-54: self.pssm.distribution(precision=10**3).threshold_patser() *)
patser_threshold(pwm, background) ==
    LET matrix == pssm(pwm, background)
    IN  IF IsError(matrix) THEN matrix
        ELSE Return([threshold_patser |-> matrix.value, precision |-> Precision])

(* variant: the collections taken last to first *)
RECURSIVE SitesReversed(_)
SitesReversed(collection_set) ==
    IF collection_set = <<>> THEN <<>>
    ELSE SitesReversed(Tail(collection_set)) \o Head(collection_set).sites

(* line 59: [site for coll in self._collection_set for site in coll.sites] *)
RECURSIVE sites(_)
sites(collection_set) ==
    IF collection_set = <<>> THEN <<>>
    ELSE Head(collection_set).sites \o sites(Tail(collection_set))

(* ------------------------------ score_seq ------------------------------ *)
(* bio_utils.complement: the symbol-wise complement, not reversed *)
ComplementLetter(let) ==
    CASE let = "A" -> "T"
      [] let = "T" -> "A"
      [] let = "C" -> "G"
      [] let = "G" -> "C"

complement(seq) == [i \in 1..Len(seq) |-> ComplementLetter(seq[i])]

(* variant: the complement strand read in reverse *)
ScoreTermReversed(matrix, seq, complement_seq, i) ==
    RAdd(matrix[seq[i]][i], matrix[complement_seq[Len(seq) + 1 - i]][i])

(* lines 68-69: the argument of misc.log2 at position i,                  *)
(* 2**self.pssm[seq[i]][i] + 2**self.pssm[complement_seq[i]][i]            *)
ScoreTerm(matrix, seq, complement_seq, i) ==
    RAdd(matrix[seq[i]][i], matrix[complement_seq[i]][i])

(* variant: shorter sequences let through *)
LengthAtLeast(length, seq) == length >= Len(seq)

(* line 66: assert self.length == len(seq) *)
LengthMatches(length, seq) == length = Len(seq)

(* lines 61-71: AssertionError, KeyError, or the terms of the sum *)
score_seq(pwm, background, seq) ==
    IF ~ LengthMatches(pwm.length, seq) THEN Raise("AssertionError")
    ELSE LET complement_seq == complement(seq)
             matrix == pssm(pwm, background)
         IN  IF IsError(matrix) THEN matrix
             ELSE IF \E i \in 1..Len(seq) :
                        {seq[i], complement_seq[i]} \ DOMAIN matrix.value # {}
                 THEN Raise("KeyError")
             ELSE Return([i \in 1..Len(seq) |->
                            ScoreTerm(matrix.value, seq, complement_seq, i)])

(* line 75: [self.score_seq(site) for site in self.sites] *)
self_score(pwm, background, collection_set) ==
    LET listed == sites(collection_set)
        scores == [k \in 1..Len(listed) |-> score_seq(pwm, background, listed[k])]
    IN  IF \E k \in 1..Len(listed) : IsError(scores[k])
            THEN LET first == CHOOSE k \in 1..Len(listed) :
                                 /\ IsError(scores[k])
                                 /\ \A j \in 1..(k - 1) : ~ IsError(scores[j])
                 IN  scores[first]
        ELSE Return([k \in 1..Len(listed) |-> scores[k].value])

(* --------------------------- bayesian_estimator ------------------------ *)
(* line 89: prior_g = 1.0 - prior_m *)
PriorG(prior_m) == RSub(RInt(1), prior_m)

(* line 92: self.score_self(); the class defines self_score (line 73) and *)
(* no score_self, so the attribute lookup raises AttributeError            *)
Methods == {"__init__", "pwm", "length", "pssm", "background", "IC", "patser_threshold",
            "sites", "score_seq", "self_score", "bayesian_estimator",
            "_combine_pwms"}

score_self(pwm, background, collection_set) ==
    IF "score_self" \in Methods THEN self_score(pwm, background, collection_set)
    ELSE Raise("AttributeError")

(* line 105: lambda scores: 1 / (1 + lh_ratio(scores) * prior_m / prior_g) *)
Estimator(lh_ratio, prior_m, prior_g) ==
    RDiv(RInt(1), RAdd(RInt(1), RDiv(RMul(lh_ratio, prior_m), prior_g)))

(* lines 77-105: the statements run in order until one raises *)
bayesian_estimator(pwm, background, collection_set, bg_scores, prior_m) ==
    LET prior_g == PriorG(prior_m)
        pssm_scores == score_self(pwm, background, collection_set)
    IN  IF IsError(pssm_scores) THEN pssm_scores
        ELSE Return([estimator |-> TRUE, prior_m |-> prior_m, prior_g |-> prior_g,
                     pssm_scores |-> pssm_scores.value, bg_scores |-> bg_scores])

(* ------------------------------ state ---------------------------------- *)
NoCall == [op |-> "none", arg |-> <<>>, outcome |-> Return(<<>>)]

Init ==
    /\ status = "new"
    /\ _background = Unset
    /\ _pwm = Unset
    /\ _collection_set = Unset
    /\ args = Unset
    /\ ret = NoCall

(* BindingModel.__init__ *)
Construct ==
    /\ status = "new"
    /\ \E collections \in SeqsUpTo(Collections, MaxColls) :
       \E weights \in WeightLists(Len(collections)) :
       \E background \in Backgrounds :
          LET pwms == [k \in 1..Len(collections) |-> collections[k].pwm]
              combined == _combine_pwms(pwms, weights)
          IN  /\ args' = [collections |-> collections, weights |-> weights,
                          background |-> background]
              /\ _background' = background
              /\ IF IsError(combined)
                    THEN /\ status' = combined.error
                         /\ UNCHANGED <<_pwm, _collection_set>>
                    ELSE /\ status' = "ok"
                         /\ _pwm' = combined.value
                         /\ _collection_set' = collections
    /\ UNCHANGED ret

(* The model is synchronous and single-threaded: a call starts when no   *)
(* result is pending, and its outcome is held in ret until the caller    *)
(* takes it.  The fields are read by the calls, never assigned.          *)
Result(op, arg, outcome) == [op |-> op, arg |-> arg, outcome |-> outcome]

Idle == status = "ok" /\ ret.op = "none"

(* lines 21-24 *)
GetPwm ==
    /\ Idle
    /\ ret' = Result("pwm", <<>>, Return(_pwm))
    /\ UNCHANGED <<status, _background, _pwm, _collection_set, args>>

(* lines 26-29 *)
GetLength ==
    /\ Idle
    /\ ret' = Result("length", <<>>, Return(_pwm.length))
    /\ UNCHANGED <<status, _background, _pwm, _collection_set, args>>

(* variant: the log-odds matrix kept in place of the PWM *)
GetPssmCaching ==
    /\ Idle
    /\ ret' = Result("pssm", <<>>, pssm(_pwm, _background))
    /\ _pwm' = IF IsError(pssm(_pwm, _background)) THEN _pwm
               ELSE PositionWeightMatrix(_pwm.alphabet, _pwm.length,
                                         pssm(_pwm, _background).value)
    /\ UNCHANGED <<status, _background, _collection_set, args>>

(* lines 31-34 *)
GetPssm ==
    /\ Idle
    /\ ret' = Result("pssm", <<>>, pssm(_pwm, _background))
    /\ UNCHANGED <<status, _background, _pwm, _collection_set, args>>

(* lines 36-39 *)
GetBackground ==
    /\ Idle
    /\ ret' = Result("background", <<>>, Return(_background))
    /\ UNCHANGED <<status, _background, _pwm, _collection_set, args>>

(* lines 41-44 *)
GetIC ==
    /\ Idle
    /\ ret' = Result("IC", <<>>, IC(_pwm, _background))
    /\ UNCHANGED <<status, _background, _pwm, _collection_set, args>>

(* lines 46-54 *)
GetPatserThreshold ==
    /\ Idle
    /\ ret' = Result("patser_threshold", <<>>, patser_threshold(_pwm, _background))
    /\ UNCHANGED <<status, _background, _pwm, _collection_set, args>>

(* lines 56-59 *)
GetSites ==
    /\ Idle
    /\ ret' = Result("sites", <<>>, Return(sites(_collection_set)))
    /\ UNCHANGED <<status, _background, _pwm, _collection_set, args>>

(* lines 61-71 *)
CallScoreSeq ==
    /\ Idle
    /\ \E seq \in DNASeqs :
          ret' = Result("score_seq", <<seq>>, score_seq(_pwm, _background, seq))
    /\ UNCHANGED <<status, _background, _pwm, _collection_set, args>>

(* lines 73-75 *)
CallSelfScore ==
    /\ Idle
    /\ ret' = Result("self_score", <<>>,
                     self_score(_pwm, _background, _collection_set))
    /\ UNCHANGED <<status, _background, _pwm, _collection_set, args>>

(* lines 77-105 *)
CallBayesianEstimator ==
    /\ Idle
    /\ \E bg_scores \in ScoreLists : \E prior_m \in Priors :
          ret' = Result("bayesian_estimator", <<bg_scores, prior_m>>,
                        bayesian_estimator(_pwm, _background,
                                                 _collection_set,
                                                 bg_scores, prior_m))
    /\ UNCHANGED <<status, _background, _pwm, _collection_set, args>>

(* the caller takes the outcome of the call; the next call may start *)
ReturnToCaller ==
    /\ status = "ok"
    /\ ret.op # "none"
    /\ ret' = NoCall
    /\ UNCHANGED <<status, _background, _pwm, _collection_set, args>>

Next ==
    \/ Construct
    \/ GetPwm
    \/ GetLength
    \/ GetPssm
    \/ GetBackground
    \/ GetIC
    \/ GetPatserThreshold
    \/ GetSites
    \/ CallScoreSeq
    \/ CallSelfScore
    \/ CallBayesianEstimator
    \/ ReturnToCaller

Spec == Init /\ [][Next]_vars

(* ------------- the estimator closure as a pure function ---------------- *)
(* the closure of line 105 applied under two priors to one score vector,  *)
(* whose likelihood ratio lh_ratio(scores) is the same under both          *)
InitEstimator ==
    /\ status = "estimator"
    /\ _background = Unset
    /\ _pwm = Unset
    /\ _collection_set = Unset
    /\ args \in [lh_ratio : Ratios, prior_1 : OpenPriors, prior_2 : OpenPriors]
    /\ ret = NoCall

ApplyEstimator ==
    /\ status = "estimator"
    /\ ret.op = "none"
    /\ ret' = Result("estimator", args, Return(
                 <<Estimator(args.lh_ratio, args.prior_1, PriorG(args.prior_1)),
                   Estimator(args.lh_ratio, args.prior_2, PriorG(args.prior_2))>>))
    /\ UNCHANGED <<status, _background, _pwm, _collection_set, args>>

NextEstimator == ApplyEstimator

SpecEstimator == InitEstimator /\ [][NextEstimator]_vars

(* ============================== properties ============================= *)
(* the arguments the constructor was called with *)
InputPwms == [k \in 1..Len(args.collections) |-> args.collections[k].pwm]

(* the constructor has just ended, by returning or by raising *)
Constructing == status # "new" /\ ret.op = "none"

HasPwm == "vals" \in DOMAIN _pwm

HasCollections == DOMAIN _collection_set # {"unset"}

InputsAgree ==
    \A j, k \in 1..Len(InputPwms) :
        /\ InputPwms[j].length = InputPwms[k].length
        /\ InputPwms[j].alphabet = InputPwms[k].alphabet

(* sum_k pwm_k[let][i] * weight_k, divided by sum(weights) *)
WeightedAverage(pwms, weights, let, i) ==
    RDiv(RSum([k \in 1..Len(pwms) |->
                 RMul(pwms[k].vals[let][i], RInt(weights[k]))]),
         RInt(ISum(weights)))

ColumnSum(pwm, i) ==
    LET alphabet == pwm.alphabet
    IN  RSum([k \in 1..Len(alphabet) |-> pwm.vals[alphabet[k]][i]])

ValidPwm(pwm) ==
    \A i \in 1..pwm.length :
        /\ \A let \in Letters(pwm.alphabet) : RLeq(RInt(0), pwm.vals[let][i])
        /\ ColumnSum(pwm, i) = RInt(1)

(* C1: for a non-empty list of PWMs of one length L and one alphabet A   *)
(* and as many weights, of non-zero sum, the constructor's _combine_pwms *)
(* returns a PWM of length L over A whose entry at every (symbol,        *)
(* position) is sum_i pwm_i[symbol][position] * weight_i / sum(weights). *)
C1_CombineIsWeightedAverage ==
    (/\ Constructing
     /\ InputPwms # <<>>
     /\ InputsAgree
     /\ Len(args.weights) = Len(InputPwms)
     /\ ISum(args.weights) # 0)
    => /\ status = "ok"
       /\ _pwm.length = InputPwms[1].length
       /\ _pwm.alphabet = InputPwms[1].alphabet
       /\ DOMAIN _pwm.vals = Letters(InputPwms[1].alphabet)
       /\ \A let \in Letters(InputPwms[1].alphabet) :
             /\ Len(_pwm.vals[let]) = InputPwms[1].length
             /\ \A i \in 1..InputPwms[1].length :
                   _pwm.vals[let][i]
                     = WeightedAverage(InputPwms, args.weights, let, i)

(* two different PWMs combined under two different non-zero weights *)
C1_Witness ==
    /\ status = "ok"
    /\ Len(InputPwms) = 2
    /\ InputPwms[1] # InputPwms[2]
    /\ Len(args.weights) = 2
    /\ args.weights[1] > 0
    /\ args.weights[2] > args.weights[1]
    /\ _pwm # InputPwms[1]
    /\ _pwm # InputPwms[2]

(* C2: on a constructed model with at least one site, bayesian_estimator *)
(* called with non-empty bg_scores and 0 < prior_m < 1 returns an        *)
(* estimator fitted on the scores score_seq gives the model's sites.     *)
C2_EstimatorReturned ==
    (/\ ret.op = "bayesian_estimator"
     /\ sites(_collection_set) # <<>>
     /\ ret.arg[1] # <<>>
     /\ RLt(RInt(0), ret.arg[2])
     /\ RLt(ret.arg[2], RInt(1)))
    => /\ ret.outcome.error = ""
       /\ Return(ret.outcome.value.pssm_scores)
            = self_score(_pwm, _background, _collection_set)

(* C3: combination fails, and no combined PWM is produced, whenever the  *)
(* number of weights differs from the number of PWMs.                    *)
C3_MismatchFails ==
    (/\ Constructing
     /\ Len(args.weights) # Len(args.collections))
    => /\ status # "ok"
       /\ ~ HasPwm

(* C4: construction fails with an assertion failure, leaving no combined *)
(* PWM, exactly when two input PWMs differ in length or in alphabet.     *)
C4_AssertsAgreement ==
    Constructing
    => /\ (status = "AssertionError") <=> ~ InputsAgree
       /\ ~ InputsAgree => (~ HasPwm /\ ~ HasCollections)

(* two PWMs of one length over different alphabets are turned down *)
C4_Witness ==
    /\ status = "AssertionError"
    /\ Len(InputPwms) = 2
    /\ InputPwms[1].length = InputPwms[2].length
    /\ InputPwms[1].alphabet # InputPwms[2].alphabet
    /\ ~ HasPwm

C6_FieldsNeverChange ==
    [][status = "ok" => /\ _pwm' = _pwm
                        /\ _background' = _background
                        /\ _collection_set' = _collection_set]_vars

(* a call has failed and the fields are what the constructor left *)
C6_Witness ==
    /\ status = "ok"
    /\ ret.op = "score_seq"
    /\ ret.outcome.error = "AssertionError"
    /\ _pwm = _combine_pwms(InputPwms, args.weights).value
    /\ _background = args.background
    /\ _collection_set = args.collections

(* C7: score_seq fails with an assertion failure and returns no score    *)
(* when the sequence length differs from the model's length, and does    *)
(* not fail that way when the lengths are equal.                         *)
C7_LengthPrecondition ==
    ret.op = "score_seq"
    => IF Len(ret.arg[1]) # _pwm.length
          THEN /\ ret.outcome.error = "AssertionError"
               /\ "value" \notin DOMAIN ret.outcome
          ELSE ret.outcome.error # "AssertionError"

(* a sequence shorter than the model was turned down *)
C7_Witness ==
    /\ ret.op = "score_seq"
    /\ Len(ret.arg[1]) < _pwm.length
    /\ ret.outcome.error = "AssertionError"

Count(s, x) == Cardinality({k \in 1..Len(s) : s[k] = x})

Offset(collections, k) ==
    ISum([j \in 1..(k - 1) |-> Len(collections[j].sites)])

(* C8: sites is the concatenation of the collections' sites, in          *)
(* collection order and then site order; its length is the sum of the    *)
(* site counts and every site keeps its multiplicity.                    *)
C8_SitesConcatenation ==
    ret.op = "sites"
    => LET cs == _collection_set
           listed == ret.outcome.value
       IN  /\ ret.outcome.error = ""
           /\ Len(listed) = ISum([k \in 1..Len(cs) |-> Len(cs[k].sites)])
           /\ \A k \in 1..Len(cs) : \A j \in 1..Len(cs[k].sites) :
                 listed[Offset(cs, k) + j] = cs[k].sites[j]
           /\ \A k \in 1..Len(cs) : \A j \in 1..Len(cs[k].sites) :
                 Count(listed, cs[k].sites[j])
                   = ISum([m \in 1..Len(cs) |->
                             Count(cs[m].sites, cs[k].sites[j])])

(* two different collections that share a site, which is listed again *)
C8_Witness ==
    /\ ret.op = "sites"
    /\ Len(_collection_set) = 2
    /\ _collection_set[1] # _collection_set[2]
    /\ \E x \in DNASeqs :
          /\ Count(_collection_set[1].sites, x) > 0
          /\ Count(_collection_set[2].sites, x) > 0
          /\ Count(ret.outcome.value, x) > 2
    /\ ret.outcome.value[1] # ret.outcome.value[Len(ret.outcome.value)]

(* C9: when every input PWM has non-negative columns summing to 1 and    *)
(* the weights are non-negative, of positive sum and as many as the      *)
(* PWMs, every column of the combined PWM is non-negative and sums to 1. *)
C9_ColumnsStayNormalized ==
    (/\ Constructing
     /\ status = "ok"
     /\ \A k \in 1..Len(InputPwms) : ValidPwm(InputPwms[k])
     /\ Len(args.weights) = Len(InputPwms)
     /\ \A k \in 1..Len(args.weights) : args.weights[k] >= 0
     /\ ISum(args.weights) > 0)
    => ValidPwm(_pwm)

(* two different valid PWMs under unequal positive weights *)
C9_Witness ==
    /\ status = "ok"
    /\ Len(InputPwms) = 2
    /\ InputPwms[1] # InputPwms[2]
    /\ \A k \in 1..2 : ValidPwm(InputPwms[k])
    /\ Len(args.weights) = 2
    /\ args.weights[1] > args.weights[2]
    /\ args.weights[2] > 0
    /\ ValidPwm(_pwm)

(* C10: score_seq gives a sequence of the model's length and its         *)
(* symbol-wise complement the same score.                                *)
C10_ComplementSymmetry ==
    (/\ ret.op = "score_seq"
     /\ Len(ret.arg[1]) = _pwm.length)
    => LET other == score_seq(_pwm, _background, complement(ret.arg[1]))
       IN  /\ other.error = ret.outcome.error
           /\ other.error = "" => other.value = ret.outcome.value

(* a scored sequence whose two strands score differently at a position *)
C10_Witness ==
    /\ ret.op = "score_seq"
    /\ ret.outcome.error = ""
    /\ LET seq == ret.arg[1]
           matrix == pssm(_pwm, _background).value
       IN  \E i \in 1..Len(seq) :
               matrix[seq[i]][i] # matrix[complement(seq)[i]][i]
====
